---- MODULE Spec2Model ----
(***************************************************************************)
(* Route-ordering and day-segmentation engine of the itinerary planner:    *)
(*   distanceMeters            (src/lib/places.ts)                          *)
(*   orderByNearestFromStart   (src/lib/orderStops.ts)                      *)
(*   findClosestRouteIndex,                                                 *)
(*   getRouteSegmentsByDay     (lib/routeSegments.ts)                       *)
(*                                                                         *)
(* and the state of the App component that calls them (App.tsx).           *)
(*                                                                         *)
(* Points are [lng, lat] pairs in whole degrees.  Every point handed to    *)
(* the sequencer, the projection and the partitioner lies on the equator   *)
(* (lat = 0) and longitudes span less than 180 degrees; there the          *)
(* haversine formula  x = sin^2(dLng/2),  d = 2R*atan2(sqrt x, sqrt(1-x))  *)
(* is exactly  d = R*|dLng|*pi/180, so the distance is computed in         *)
(* integers and orders points as the code's floating-point value does.     *)
(* The rounding of the haversine value x itself is modelled apart, on      *)
(* numbers of limited precision (HaversineX).                              *)
(*                                                                         *)
(* Polyline indices keep the code's 0-based values; TLA+ sequences are     *)
(* 1-based, so element i of a JavaScript array a is a[i + 1] here.         *)
(***************************************************************************)
EXTENDS Integers, Sequences, FiniteSets

VARIABLES
    \* getRouteSegmentsByDay: arguments, locals and result
    routeCoords,   \* argument: the route polyline
    markers,       \* argument: the stops, in stop order
    stopDays,      \* argument: the day assignment
    projected,     \* local `indices` right after the map (line 25)
    enforced,      \* local `indices` after the enforcement loop (lines 26-28)
    indices,       \* local `indices` after the final clamp (line 29)
    segments,      \* the returned RouteSegment[]
    segPair,       \* history: segPair[k] is the loop index i that pushed segments[k]
    pc,            \* "ready" before the call, "returned" after it
    \* orderByNearestFromStart: argument and locals
    items,         \* argument
    ordered,       \* local, the result once the loop has ended
    remaining,     \* local
    current,       \* local: coords of the item placed last
    opc,           \* "idle" | "ready" | "loop" | "returned"
    \* findClosestRouteIndex: arguments and result
    closestRoute,  \* argument routeCoords
    closestPoint,  \* argument point
    closestIndex,  \* the returned index, -1 before the return
    cpc,           \* "idle" | "ready" | "returned"
    \* distanceMeters on numbers of limited precision: arguments and result
    distA,         \* argument a
    distB,         \* argument b
    distX,         \* local x (line 14), in units of 1/FixedOne
    distNaN,       \* TRUE when the returned number is NaN
    dpc,           \* "idle" | "ready" | "returned"
    \* App component state (routeCoords, markers and stopDays above are the
    \* state it hands to getRouteSegmentsByDay)
    places,              \* useState, line 55: the catalogue the user picks from
    selectedPlaces,      \* useState, line 59
    prevPlacesLengthRef, \* useRef, line 74
    syncPending,         \* TRUE while the selectedPlaces effect has yet to run
    setDayArgs,          \* history: <<index, day>> of the last setStopDay call
    apc,                 \* "idle" | "mounted" | "unmounted"
    \* App component state: routing
    routeMode,           \* useState, line 49: "road" | "optimized"
    profile,             \* useState, line 50
    loading,             \* useState, line 52
    error,               \* useState, line 53
    stats,               \* useState, line 54: <<>> for {}, <<distance>> otherwise
    inFlight,            \* the requests sent to the routing service and not yet answered
    routePending,        \* TRUE while the road-route effect has yet to run
    lastResponse         \* history: the response handled last

segVars == <<routeCoords, markers, stopDays, projected, enforced, indices, segments, segPair, pc>>

orderVars == <<items, ordered, remaining, current, opc>>

closestVars == <<closestRoute, closestPoint, closestIndex, cpc>>

distVars == <<distA, distB, distX, distNaN, dpc>>

appVars == <<places, selectedPlaces, prevPlacesLengthRef, syncPending, setDayArgs, apc>>

routeVars == <<routeMode, profile, loading, error, stats, inFlight, routePending, lastResponse>>

vars == <<segVars, orderVars, closestVars, distVars, appVars, routeVars>>

\* what a call of getRouteSegmentsByDay leaves alone
segFrame == <<orderVars, closestVars, distVars, appVars, routeVars>>

\* what a call of orderByNearestFromStart leaves alone
orderFrame == <<segVars, closestVars, distVars, appVars, routeVars>>

\* what a call of findClosestRouteIndex leaves alone
closestFrame == <<segVars, orderVars, distVars, appVars, routeVars>>

\* what a call of distanceMeters leaves alone
distFrame == <<segVars, orderVars, closestVars, appVars, routeVars>>

\* what the App's handlers and effects leave alone
appFrame == <<projected, enforced, indices, segments, segPair, pc, orderVars, closestVars, distVars>>

----------------------------------------------------------------------------
\* Bounds of the model

\* longitudes of the sequencer's drawn items are 0..MaxCoord
MaxCoord == 3

\* longest route polyline drawn
MaxRouteLen == 3

\* most stops handed to the partitioner
MaxStops == 3

\* vertices of the straight test polyline
ScenarioLen == 10

\* most items handed to the sequencer
MaxItems == 4

\* places of the catalogue the user picks stops from
MaxPlaces == 3

\* largest day the user hands to setStopDay
MaxDayInput == 3

----------------------------------------------------------------------------
\* Program constants

STOPS_PER_DAY == 1

\* R * pi / 180 with R = 6371000, to the metre
MetersPerDegree == 111195

----------------------------------------------------------------------------
\* Helpers

Min(a, b) == IF a < b THEN a ELSE b

Max(a, b) == IF a > b THEN a ELSE b

Abs(a) == IF a < 0 THEN -a ELSE a

SeqsUpTo(S, n) == UNION {[1..k -> S] : k \in 0..n}

Point(lng) == <<lng, 0>>

\* the points route vertices and stops are drawn from
RoutePoints == {Point(l) : l \in 0..2}

\* the points the sequencer's items are drawn from
ItemPoints == {Point(l) : l \in 0..MaxCoord}

\* Array.prototype.slice: a negative bound counts from the end, both are clamped
SliceBound(k, len) == IF k < 0 THEN Max(len + k, 0) ELSE Min(k, len)

Slice(arr, s, e) ==
    LET a == SliceBound(s, Len(arr))
        b == SliceBound(e, Len(arr))
    IN  IF b <= a THEN <<>> ELSE [j \in 1..(b - a) |-> arr[a + j]]

----------------------------------------------------------------------------
\* distanceMeters (places.ts)

distanceMeters(a, b) == MetersPerDegree * Abs(b[1] - a[1])

\* The same function off the equator, on numbers of limited precision.  A
\* number is an integer count of 1/FixedOne, and every Math.sin, Math.cos and
\* product rounds its result to the nearest such number, as every
\* floating-point operation of the code rounds its result to the nearest double.
FixedOne == 1000

\* sin of 0, 10, ..., 90 degrees, to the nearest 1/FixedOne
SinTable == <<0, 174, 342, 500, 643, 766, 866, 940, 985, 1000>>

\* Math.sin((deg * Math.PI) / 180) for deg a multiple of 10
SinDeg(deg) ==
    LET r == deg % 360
    IN  IF r <= 90 THEN SinTable[(r \div 10) + 1]
        ELSE IF r <= 180 THEN SinTable[((180 - r) \div 10) + 1]
        ELSE IF r <= 270 THEN -SinTable[((r - 180) \div 10) + 1]
        ELSE -SinTable[((360 - r) \div 10) + 1]

\* Math.cos((deg * Math.PI) / 180) for deg a multiple of 10
CosDeg(deg) == SinDeg(deg + 90)

\* p * q, rounded to the nearest 1/FixedOne
FixedMul(p, q) ==
    LET n == p * q
    IN  IF n >= 0 THEN (n + (FixedOne \div 2)) \div FixedOne
        ELSE -((-n + (FixedOne \div 2)) \div FixedOne)

\* lines 12-18: x, from points whose coordinates are multiples of 20 degrees
HaversineX(a, b) ==
    LET sLat == SinDeg((b[2] - a[2]) \div 2)
        sLng == SinDeg((b[1] - a[1]) \div 2)
    IN  FixedMul(sLat, sLat)
            + FixedMul(FixedMul(CosDeg(a[2]), CosDeg(b[2])), FixedMul(sLng, sLng))

\* line 19: Math.sqrt of a negative number is NaN, Math.atan2 of a NaN is NaN
\* and so is the product returned
ResultIsNaN(x) == x < 0 \/ FixedOne - x < 0

----------------------------------------------------------------------------
\* findClosestRouteIndex (routeSegments.ts)

RECURSIVE ClosestScan(_, _, _, _, _)
ClosestScan(rc, point, i, best, bestDist) ==
    IF i >= Len(rc) THEN best
    ELSE LET d == distanceMeters(rc[i + 1], point)
         IN  IF d < bestDist
             THEN ClosestScan(rc, point, i + 1, i, d)
             ELSE ClosestScan(rc, point, i + 1, best, bestDist)

\* the scan with `best = i` left out of the update
findClosestRouteIndexNoUpdate(rc, point) == 0

\* line 6 left out: routeCoords[0] is undefined on an empty polyline and
\* distanceMeters throws on it; -1 stands for the throw
findClosestRouteIndexNoGuard(rc, point) ==
    IF Len(rc) = 0 THEN -1
    ELSE ClosestScan(rc, point, 1, 0, distanceMeters(rc[1], point))

\* the scan comparing with `<=`: among equally near vertices the last one wins
RECURSIVE ClosestScanLastTie(_, _, _, _, _)
ClosestScanLastTie(rc, point, i, best, bestDist) ==
    IF i >= Len(rc) THEN best
    ELSE LET d == distanceMeters(rc[i + 1], point)
         IN  IF d <= bestDist
             THEN ClosestScanLastTie(rc, point, i + 1, i, d)
             ELSE ClosestScanLastTie(rc, point, i + 1, best, bestDist)

findClosestRouteIndexLastTie(rc, point) ==
    IF Len(rc) = 0 THEN 0
    ELSE ClosestScanLastTie(rc, point, 1, 0, distanceMeters(rc[1], point))

findClosestRouteIndex(rc, point) ==
    IF Len(rc) = 0 THEN 0
    ELSE ClosestScan(rc, point, 1, 0, distanceMeters(rc[1], point))

----------------------------------------------------------------------------
\* getRouteSegmentsByDay (routeSegments.ts)

\* line 24: the precondition check
Degenerate(rc, m) == Len(rc) < 2 \/ Len(m) < 2

\* the early return handing back the whole route as one segment
DegenerateResultWholeRoute(rc) == <<[coords |-> rc, day |-> 1]>>

\* line 24: what the early return hands back
DegenerateResult(rc) == <<>>

\* line 25: markers.map((m) => findClosestRouteIndex(routeCoords, m.coords))
ProjectMarkers(rc, m) == [k \in 1..Len(m) |-> findClosestRouteIndex(rc, m[k].coords)]

\* line 27 left out: the projected index is kept
EnforceIndexSkipped(prev, cur, n) == cur

\* line 27 without the step forward: the index is raised to its predecessor only
EnforceIndexNoStep(prev, cur, n) == IF cur <= prev THEN Min(prev, n - 1) ELSE cur

\* line 27 with `==` for `<=`: an index behind its predecessor is kept
EnforceIndexEqualOnly(prev, cur, n) == IF cur = prev THEN Min(prev + 1, n - 1) ELSE cur

\* line 27 without Math.min: the step forward may leave the polyline
EnforceIndexNoMin(prev, cur, n) == IF cur <= prev THEN prev + 1 ELSE cur

\* line 27: the new value of indices[i], given indices[i - 1] and indices[i]
EnforceIndex(prev, cur, n) == IF cur <= prev THEN Min(prev + 1, n - 1) ELSE cur

\* lines 26-28: the loop, from i on
RECURSIVE EnforceLoop(_, _, _)
EnforceLoop(idx, i, n) ==
    IF i >= Len(idx) THEN idx
    ELSE EnforceLoop([idx EXCEPT ![i + 1] = EnforceIndex(idx[i], idx[i + 1], n)], i + 1, n)

\* line 29
ClampLast(idx, n) ==
    IF idx[Len(idx)] >= n THEN [idx EXCEPT ![Len(idx)] = n - 1] ELSE idx

\* slice(start, end): the end vertex left out
SegmentCoordsExclusive(rc, start, end) == Slice(rc, start, end)

\* slice(start, end + 2): one vertex too many
SegmentCoordsOvershoot(rc, start, end) == Slice(rc, start, end + 2)

\* line 36: routeCoords.slice(start, end + 1)
SegmentCoords(rc, start, end) == Slice(rc, start, end + 1)

\* `coords.length > 2` for `coords.length >= 2`
KeepSegmentLongOnly(start, end, n, coords) == end > start /\ start < n /\ Len(coords) > 2

\* `end >= start` for `end > start`, and no length check
KeepSegmentLoose(start, end, n, coords) == end >= start /\ start < n

\* lines 35 and 37: the two conditions under which a pair's segment is pushed
KeepSegment(start, end, n, coords) == end > start /\ start < n /\ Len(coords) >= 2

\* the default without the `+ 1`
DefaultDayZeroBased(i) == i \div STOPS_PER_DAY

\* line 40: Math.floor(i / STOPS_PER_DAY) + 1
DefaultDay(i) == (i \div STOPS_PER_DAY) + 1

\* the day read from the pair's second stop
DayForNextStop(sd, i) == IF i + 1 < Len(sd) THEN sd[i + 2] ELSE (i \div STOPS_PER_DAY) + 1

\* line 40: stopDays[i] ?? default  (stopDays[i] is undefined from its length on)
DayFor(sd, i) == IF i < Len(sd) THEN sd[i + 1] ELSE DefaultDay(i)

\* lines 32-44: the loop, from i on; acc holds the pushed segments, each with
\* the loop index that pushed it
RECURSIVE BuildLoop(_, _, _, _, _)
BuildLoop(rc, idx, sd, i, acc) ==
    IF i >= Len(idx) - 1 THEN acc
    ELSE LET start == idx[i + 1]
             end == idx[i + 2]
             coords == SegmentCoords(rc, start, end)
         IN  IF KeepSegment(start, end, Len(rc), coords)
             THEN BuildLoop(rc, idx, sd, i + 1,
                            Append(acc, [coords |-> coords, day |-> DayFor(sd, i), pair |-> i]))
             ELSE BuildLoop(rc, idx, sd, i + 1, acc)

\* lines 19-46: one call, with the values its locals took
RunPartition(rc, m, sd) ==
    IF Degenerate(rc, m)
    THEN [projected |-> <<>>, enforced |-> <<>>, indices |-> <<>>,
          segments |-> DegenerateResult(rc), pairs |-> <<>>]
    ELSE LET proj == ProjectMarkers(rc, m)
             enf == EnforceLoop(proj, 1, Len(rc))
             idx == ClampLast(enf, Len(rc))
             acc == BuildLoop(rc, idx, sd, 0, <<>>)
         IN  [projected |-> proj, enforced |-> enf, indices |-> idx,
              segments |-> [k \in 1..Len(acc) |-> [coords |-> acc[k].coords, day |-> acc[k].day]],
              pairs |-> [k \in 1..Len(acc) |-> acc[k].pair]]

getRouteSegmentsByDay(rc, m, sd) == RunPartition(rc, m, sd).segments

\* the marker's fallback computed with 4 stops per day, the number the
\* auto-assign button shows
MarkerDayFourPerDay(sd, i) == IF i < Len(sd) THEN sd[i + 1] ELSE (i \div 4) + 1

\* App, the day shown on marker i: stopDays[i] ?? Math.floor(i / STOPS_PER_DAY) + 1
MarkerDay(sd, i) == IF i < Len(sd) THEN sd[i + 1] ELSE (i \div STOPS_PER_DAY) + 1

----------------------------------------------------------------------------
\* orderByNearestFromStart (orderStops.ts)

\* lines 11-19: index in `remaining` of the item nearest to `cur`
RECURSIVE NearestScan(_, _, _, _, _)
NearestScan(cur, rem, i, bestIdx, bestDist) ==
    IF i >= Len(rem) THEN bestIdx
    ELSE LET d == distanceMeters(cur, rem[i + 1].coords)
         IN  IF d < bestDist
             THEN NearestScan(cur, rem, i + 1, i, d)
             ELSE NearestScan(cur, rem, i + 1, bestIdx, bestDist)

\* the scan comparing with `<=`: among equally near items the last one wins
RECURSIVE NearestScanLastTie(_, _, _, _, _)
NearestScanLastTie(cur, rem, i, bestIdx, bestDist) ==
    IF i >= Len(rem) THEN bestIdx
    ELSE LET d == distanceMeters(cur, rem[i + 1].coords)
         IN  IF d <= bestDist
             THEN NearestScanLastTie(cur, rem, i + 1, i, d)
             ELSE NearestScanLastTie(cur, rem, i + 1, bestIdx, bestDist)

NearestIndexLastTie(cur, rem) ==
    NearestScanLastTie(cur, rem, 1, 0, distanceMeters(cur, rem[1].coords))

NearestIndex(cur, rem) == NearestScan(cur, rem, 1, 0, distanceMeters(cur, rem[1].coords))

\* the filter comparing coordinates instead of positions
RemoveSameCoords(rem, bestIdx) == SelectSeq(rem, LAMBDA r : r.coords # rem[bestIdx + 1].coords)

\* the filter comparing the item, not its position, with bestIdx: nothing is removed
RemoveNothing(rem, bestIdx) == rem

\* line 22: remaining.filter((_, i) => i !== bestIdx)
RemoveAt(rem, bestIdx) ==
    [j \in 1..(Len(rem) - 1) |-> IF j <= bestIdx THEN rem[j] ELSE rem[j + 1]]

\* lines 10-24: the loop, run to its end
RECURSIVE OrderLoop(_, _, _)
OrderLoop(ord, rem, cur) ==
    IF Len(rem) = 0 THEN ord
    ELSE LET bestIdx == NearestIndex(cur, rem)
             next == rem[bestIdx + 1]
         IN  OrderLoop(Append(ord, next), RemoveAt(rem, bestIdx), next.coords)

orderByNearestFromStart(its) ==
    IF Len(its) <= 2 THEN its
    ELSE OrderLoop(<<its[1]>>, Tail(its), its[1].coords)

----------------------------------------------------------------------------
\* The inputs drawn

Routes == SeqsUpTo(RoutePoints, MaxRouteLen)

StopLists(P) == {[k \in 1..Len(cs) |-> [coords |-> cs[k]]] : cs \in SeqsUpTo(P, MaxStops)}

\* every list of days 1 and 2, and the assignment floor(i / STOPS_PER_DAY) + 1 of
\* every length
DayLists ==
    SeqsUpTo(1..2, MaxStops)
        \cup {[j \in 1..n |-> ((j - 1) \div STOPS_PER_DAY) + 1] : n \in 0..MaxStops}

\* the straight polyline of ScenarioLen evenly spaced vertices, and stops on
\* its vertices 0, 4 and 9
ScenarioRoute == [k \in 1..ScenarioLen |-> Point(k - 1)]

ScenarioPoints == {Point(0), Point(4), Point(9)}

ItemLists ==
    {[k \in 1..Len(cs) |-> [id |-> k, coords |-> cs[k]]] : cs \in SeqsUpTo(ItemPoints, MaxItems)}

\* the stops (0,0), (10,0), (1,0), (2,0) of the sequencer's scenario
ScenarioItems ==
    <<[id |-> 1, coords |-> Point(0)], [id |-> 2, coords |-> Point(10)],
      [id |-> 3, coords |-> Point(1)], [id |-> 4, coords |-> Point(2)]>>

NoPoint == <<>>

\* the points distanceMeters is called on: every 20 degrees of latitude, and
\* longitudes up to half a turn apart
GridLats == {20 * k : k \in (-4)..4}

GridLngs == {-180, -20, 0, 100, 180}

GridPoints == {<<lng, lat>> : lng \in GridLngs, lat \in GridLats}

----------------------------------------------------------------------------
\* Partitioner: one call on drawn arguments

SegIdle ==
    /\ routeCoords = <<>>
    /\ markers = <<>>
    /\ stopDays = <<>>
    /\ projected = <<>>
    /\ enforced = <<>>
    /\ indices = <<>>
    /\ segments = <<>>
    /\ segPair = <<>>
    /\ pc = "idle"

OrderIdle ==
    /\ items = <<>>
    /\ ordered = <<>>
    /\ remaining = <<>>
    /\ current = NoPoint
    /\ opc = "idle"

ClosestIdle ==
    /\ closestRoute = <<>>
    /\ closestPoint = NoPoint
    /\ closestIndex = -1
    /\ cpc = "idle"

DistIdle ==
    /\ distA = NoPoint
    /\ distB = NoPoint
    /\ distX = 0
    /\ distNaN = FALSE
    /\ dpc = "idle"

\* error: null
NoError == "null"

\* stats: {}
NoStats == <<>>

NoResponse == [src |-> "none", outcome |-> "none"]

\* lines 49-54: the initial routing state
RouteIdle ==
    /\ routeMode = "road"
    /\ profile = "driving"
    /\ loading = FALSE
    /\ error = NoError
    /\ stats = NoStats
    /\ inFlight = <<>>
    /\ routePending = FALSE
    /\ lastResponse = NoResponse

AppIdle ==
    /\ places = {}
    /\ selectedPlaces = <<>>
    /\ prevPlacesLengthRef = 0
    /\ syncPending = FALSE
    /\ setDayArgs = <<>>
    /\ apc = "idle"
    /\ RouteIdle

Init ==
    /\ \/ routeCoords \in Routes /\ markers \in StopLists(RoutePoints)
       \/ routeCoords = ScenarioRoute /\ markers \in StopLists(ScenarioPoints)
    /\ stopDays \in DayLists
    /\ projected = <<>>
    /\ enforced = <<>>
    /\ indices = <<>>
    /\ segments = <<>>
    /\ segPair = <<>>
    /\ pc = "ready"
    /\ OrderIdle
    /\ ClosestIdle
    /\ DistIdle
    /\ AppIdle

CallGetRouteSegmentsByDay ==
    /\ pc = "ready"
    /\ \E r \in {RunPartition(routeCoords, markers, stopDays)} :
           /\ projected' = r.projected
           /\ enforced' = r.enforced
           /\ indices' = r.indices
           /\ segments' = r.segments
           /\ segPair' = r.pairs
    /\ pc' = "returned"
    /\ UNCHANGED <<routeCoords, markers, stopDays, segFrame>>

Next == CallGetRouteSegmentsByDay

Spec == Init /\ [][Next]_vars

----------------------------------------------------------------------------
\* Sequencer: one call on a drawn argument, one loop iteration per step

OrderInit ==
    /\ items \in ItemLists \cup {ScenarioItems}
    /\ ordered = <<>>
    /\ remaining = <<>>
    /\ current = NoPoint
    /\ opc = "ready"
    /\ SegIdle
    /\ ClosestIdle
    /\ DistIdle
    /\ AppIdle

\* `ordered` not seeded with the start item
OrderStartUnseeded ==
    /\ opc = "ready"
    /\ IF Len(items) <= 2
       THEN /\ ordered' = items
            /\ opc' = "returned"
            /\ UNCHANGED <<remaining, current>>
       ELSE /\ ordered' = <<>>
            /\ remaining' = Tail(items)
            /\ current' = items[1].coords
            /\ opc' = "loop"
    /\ UNCHANGED <<items, orderFrame>>

\* no early return and no fixed start: every item goes through the loop, from [0, 0]
OrderStartFromOrigin ==
    /\ opc = "ready"
    /\ ordered' = <<>>
    /\ remaining' = items
    /\ current' = Point(0)
    /\ opc' = "loop"
    /\ UNCHANGED <<items, orderFrame>>

\* lines 5-9
OrderStart ==
    /\ opc = "ready"
    /\ IF Len(items) <= 2
       THEN /\ ordered' = items
            /\ opc' = "returned"
            /\ UNCHANGED <<remaining, current>>
       ELSE /\ ordered' = <<items[1]>>
            /\ remaining' = Tail(items)
            /\ current' = items[1].coords
            /\ opc' = "loop"
    /\ UNCHANGED <<items, orderFrame>>

\* lines 10-24: one iteration
OrderStep ==
    /\ opc = "loop"
    /\ Len(remaining) > 0
    /\ LET bestIdx == NearestIndex(current, remaining)
           next == remaining[bestIdx + 1]
       IN  /\ ordered' = Append(ordered, next)
           /\ remaining' = RemoveAt(remaining, bestIdx)
           /\ current' = next.coords
    /\ UNCHANGED <<items, opc, orderFrame>>

\* total straight-line length of a tour
RECURSIVE TourLength(_)
TourLength(tour) ==
    IF Len(tour) < 2 THEN 0
    ELSE distanceMeters(tour[1].coords, tour[2].coords) + TourLength(Tail(tour))

\* every order of the items that keeps the first item first
ToursFrom(its) ==
    {[k \in 1..Len(its) |-> its[p[k]]] :
        p \in {q \in [1..Len(its) -> 1..Len(its)] :
                  /\ (Len(its) > 0 => q[1] = 1)
                  /\ \A a, b \in 1..Len(its) : a # b => q[a] # q[b]}}

\* an exact solver: the return hands back a shortest tour from the first item
OrderReturnShortestTour ==
    /\ opc = "loop"
    /\ Len(remaining) = 0
    /\ ordered' = CHOOSE t \in ToursFrom(items) :
                      \A u \in ToursFrom(items) : TourLength(t) <= TourLength(u)
    /\ opc' = "returned"
    /\ UNCHANGED <<items, remaining, current, orderFrame>>

\* line 25
OrderReturn ==
    /\ opc = "loop"
    /\ Len(remaining) = 0
    /\ opc' = "returned"
    /\ UNCHANGED <<items, ordered, remaining, current, orderFrame>>

OrderNext == OrderStart \/ OrderStep \/ OrderReturn

OrderSpec == OrderInit /\ [][OrderNext]_vars

\* the call is synchronous: a step that can be taken is taken
OrderFairSpec == OrderInit /\ [][OrderNext]_vars /\ WF_vars(OrderNext)

----------------------------------------------------------------------------
\* Projection: one call of findClosestRouteIndex on drawn arguments

\* the projection scenario, polyline (0,0), (1,0), (2,0) and query (1.1,0), in
\* tenths of a degree
ScenarioClosestRoute == <<Point(0), Point(10), Point(20)>>

ScenarioClosestPoint == Point(11)

ClosestInit ==
    /\ closestRoute \in Routes \cup {ScenarioClosestRoute}
    /\ closestPoint \in ItemPoints \cup {ScenarioClosestPoint}
    /\ closestIndex = -1
    /\ cpc = "ready"
    /\ SegIdle
    /\ OrderIdle
    /\ DistIdle
    /\ AppIdle

CallFindClosestRouteIndex ==
    /\ cpc = "ready"
    /\ closestIndex' = findClosestRouteIndex(closestRoute, closestPoint)
    /\ cpc' = "returned"
    /\ UNCHANGED <<closestRoute, closestPoint, closestFrame>>

ClosestNext == CallFindClosestRouteIndex

ClosestSpec == ClosestInit /\ [][ClosestNext]_vars

----------------------------------------------------------------------------
\* distanceMeters: one call on two drawn points

DistanceInit ==
    /\ distA \in GridPoints
    /\ distB \in GridPoints
    /\ distX = 0
    /\ distNaN = FALSE
    /\ dpc = "ready"
    /\ SegIdle
    /\ OrderIdle
    /\ ClosestIdle
    /\ AppIdle

CallDistanceMeters ==
    /\ dpc = "ready"
    /\ distX' = HaversineX(distA, distB)
    /\ distNaN' = ResultIsNaN(distX')
    /\ dpc' = "returned"
    /\ UNCHANGED <<distA, distB, distFrame>>

DistanceNext == CallDistanceMeters

DistanceSpec == DistanceInit /\ [][DistanceNext]_vars

----------------------------------------------------------------------------
\* App: the stop list and its day assignment (App.tsx)

\* place k of the catalogue lies at longitude (3 * k) % 4
PlacePool == {[id |-> k, coords |-> Point((3 * k) % 4)] : k \in 1..MaxPlaces}

\* the arguments the handlers are called with
IndexInputs == (-1)..MaxPlaces

DayInputs == (-1)..MaxDayInput

\* lines 176, 337: (_, i) => Math.floor(i / STOPS_PER_DAY) + 1 mapped over n entries
DefaultDays(n) == [j \in 1..n |-> DefaultDay(j - 1)]

\* lines 223-227: the markers of the selected places
MarkersOf(sel) ==
    [k \in 1..Len(sel) |-> [id |-> sel[k].id, coords |-> sel[k].coords]]

\* the effect without `if (n < prev.length) return prev.slice(0, n)`
SyncStopDaysNoShrink(prev, n) ==
    IF n > Len(prev)
    THEN [j \in 1..n |-> IF j <= Len(prev) THEN prev[j] ELSE DefaultDay(j - 1)]
    ELSE prev

\* the effect with `prev.slice(-n)`: the last n entries are kept
SyncStopDaysKeepTail(prev, n) ==
    IF n > Len(prev)
    THEN [j \in 1..n |-> IF j <= Len(prev) THEN prev[j] ELSE DefaultDay(j - 1)]
    ELSE IF n < Len(prev) THEN Slice(prev, Len(prev) - n, Len(prev))
    ELSE prev

\* lines 232-240: stopDays brought to n entries
SyncStopDays(prev, n) ==
    IF n > Len(prev)
    THEN [j \in 1..n |-> IF j <= Len(prev) THEN prev[j] ELSE DefaultDay(j - 1)]
    ELSE IF n < Len(prev) THEN Slice(prev, 0, n)
    ELSE prev

\* the day stored as handed in
ClampDayNone(day) == day

\* line 331: Math.max(1, day)
ClampDay(day) == Max(1, day)

\* most requests awaiting their response at a time
MaxInFlight == 2

\* the profiles the user switches between
Profiles == {"driving", "walking"}

\* the message of a response that reports an error
ServiceError == "NoRoute"

\* markers.map((m) => m.coords)
MarkerCoords(m) == [k \in 1..Len(m) |-> m[k].coords]

\* the geometry the service returns for stops visited in the order given: the
\* straight polyline through them
RoadRoute(coords) == coords

\* the orders in which the trip service may visit the stops
Trips(coords) ==
    {[k \in 1..Len(coords) |-> coords[p[k]]] :
        p \in {q \in [1..Len(coords) -> 1..Len(coords)] :
                  \A a, b \in 1..Len(coords) : a # b => q[a] # q[b]}}

\* the geometry of a round trip through the stops in trip order
TripRoute(trip) == Append(trip, trip[1])

\* total length of a polyline
RECURSIVE RouteLength(_)
RouteLength(route) ==
    IF Len(route) < 2 THEN 0
    ELSE distanceMeters(route[1], route[2]) + RouteLength(Tail(route))

\* { distance: result.distanceMeters, duration: result.durationSeconds }
StatsOf(route) == <<RouteLength(route)>>

\* lines 162-166: the markers made of the waypoints in trip order
NewMarkers(trip) == [k \in 1..Len(trip) |-> [id |-> k - 1, coords |-> trip[k]]]

\* a request: who sent it, for which stops and profile, and the `cancelled`
\* flag of the effect run that sent it
Request(src, coords, prof) ==
    [src |-> src, coords |-> coords, profile |-> prof, cancelled |-> FALSE]

\* the cleanup that leaves the flag alone
CancelNothing(reqs) == reqs

\* lines 207-209: the cleanup of the road-route effect sets `cancelled` of the
\* run that sent the request
CancelEffectRequests(reqs) ==
    [k \in DOMAIN reqs |->
        IF reqs[k].src = "effect" THEN [reqs[k] EXCEPT !.cancelled = TRUE] ELSE reqs[k]]

\* the component after mounting and the first run of its effects, with a
\* catalogue of MaxPlaces places
AppInit ==
    /\ places = PlacePool
    /\ selectedPlaces = <<>>
    /\ prevPlacesLengthRef = 0
    /\ syncPending = FALSE
    /\ setDayArgs = <<>>
    /\ apc = "mounted"
    /\ RouteIdle
    /\ SegIdle
    /\ OrderIdle
    /\ ClosestIdle
    /\ DistIdle

\* the effects of a render have run
EffectsDone == ~syncPending /\ ~routePending

\* an event handler runs once the effects of the previous render have run
HandlerReady == apc = "mounted" /\ EffectsDone

\* a handler that may lead to a request runs while there is room for one
RoomForRequest == Len(inFlight) < MaxInFlight

\* lines 300-304
AddPlaceToRoute ==
    /\ HandlerReady
    /\ RoomForRequest
    /\ \E place \in places :
           IF \E k \in DOMAIN selectedPlaces : selectedPlaces[k].id = place.id
           THEN UNCHANGED <<selectedPlaces, syncPending>>
           ELSE /\ selectedPlaces' = Append(selectedPlaces, place)
                /\ syncPending' = TRUE
    /\ UNCHANGED <<routeCoords, markers, stopDays, places, prevPlacesLengthRef, setDayArgs, apc,
                   routeVars, appFrame>>

\* lines 306-308
RemovePlaceFromRoute ==
    /\ HandlerReady
    /\ RoomForRequest
    /\ \E placeId \in 1..MaxPlaces :
           selectedPlaces' = SelectSeq(selectedPlaces, LAMBDA p : p.id # placeId)
    /\ syncPending' = TRUE
    /\ UNCHANGED <<routeCoords, markers, stopDays, places, prevPlacesLengthRef, setDayArgs, apc,
                   routeVars, appFrame>>

\* lines 172-179; its buttons are disabled with fewer than 2 markers (lines 557, 926)
SuggestRouteByDistance ==
    /\ HandlerReady
    /\ RoomForRequest
    /\ Len(markers) >= 2
    /\ Len(selectedPlaces) >= 2
    /\ \E ord \in {orderByNearestFromStart(selectedPlaces)} :
           /\ selectedPlaces' = ord
           /\ stopDays' = DefaultDays(Len(ord))
    /\ routeMode' = "road"
    /\ error' = NoError
    /\ syncPending' = TRUE
    /\ routePending' = (routeMode # "road")
    /\ UNCHANGED <<routeCoords, markers, places, prevPlacesLengthRef, setDayArgs, apc,
                   profile, loading, stats, inFlight, lastResponse, appFrame>>

\* lines 328-334
SetStopDay ==
    /\ HandlerReady
    /\ \E index \in IndexInputs, day \in DayInputs :
           /\ stopDays' = IF index >= 0 /\ index < Len(stopDays)
                           THEN [stopDays EXCEPT ![index + 1] = ClampDay(day)]
                           ELSE stopDays
           /\ setDayArgs' = <<index, day>>
    /\ UNCHANGED <<routeCoords, markers, places, selectedPlaces, prevPlacesLengthRef, syncPending,
                   apc, routeVars, appFrame>>

\* lines 336-338
AutoAssignDays ==
    /\ HandlerReady
    /\ stopDays' = DefaultDays(Len(stopDays))
    /\ UNCHANGED <<routeCoords, markers, places, selectedPlaces, prevPlacesLengthRef, syncPending,
                   setDayArgs, apc, routeVars, appFrame>>

\* lines 318-326; `rerun` tells whether the road-route effect, which depends
\* on markers, is part of the specification and is to run again
ClearRouteThen(rerun) ==
    /\ HandlerReady
    /\ RoomForRequest
    /\ selectedPlaces' = <<>>
    /\ markers' = <<>>
    /\ routeCoords' = <<>>
    /\ routeMode' = "road"
    /\ stats' = NoStats
    /\ stopDays' = <<>>
    /\ syncPending' = TRUE
    /\ routePending' = rerun
    /\ UNCHANGED <<places, prevPlacesLengthRef, setDayArgs, apc, profile, loading, error,
                   inFlight, lastResponse, appFrame>>

ClearRoute == ClearRouteThen(TRUE)

\* lines 212-242: the effect on [selectedPlaces]; it runs after the road-route
\* effect (lines 181-210) of the same render
SyncSelectedPlacesThen(rerun) ==
    /\ apc = "mounted"
    /\ syncPending
    /\ ~routePending
    /\ IF Len(selectedPlaces) = 0
       THEN /\ prevPlacesLengthRef' = 0
            /\ markers' = <<>>
            /\ routeCoords' = <<>>
            /\ routeMode' = "road"
            /\ stats' = NoStats
            /\ stopDays' = <<>>
            /\ routePending' = (rerun \/ routeMode # "road")
       ELSE /\ markers' = MarkersOf(selectedPlaces)
            /\ IF Len(selectedPlaces) # prevPlacesLengthRef
               THEN /\ prevPlacesLengthRef' = Len(selectedPlaces)
                    /\ stopDays' = SyncStopDays(stopDays, Len(selectedPlaces))
               ELSE UNCHANGED <<prevPlacesLengthRef, stopDays>>
            /\ routePending' = rerun
            /\ UNCHANGED <<routeCoords, routeMode, stats>>
    /\ syncPending' = FALSE
    /\ UNCHANGED <<places, selectedPlaces, setDayArgs, apc, profile, loading, error, inFlight,
                   lastResponse, appFrame>>

SyncSelectedPlaces == SyncSelectedPlacesThen(TRUE)

\* The stop list and its day assignment, apart from the routing: no handler
\* reads the routing state to compute selectedPlaces, stopDays or
\* prevPlacesLengthRef, so the road-route effect and the requests are left
\* out of AppSpec and the two writers of markers do not wake the effect.
ClearRouteStops == ClearRouteThen(FALSE)

SyncSelectedPlacesStops == SyncSelectedPlacesThen(FALSE)

AppNext ==
    \/ AddPlaceToRoute
    \/ RemovePlaceFromRoute
    \/ SuggestRouteByDistance
    \/ SetStopDay
    \/ AutoAssignDays
    \/ ClearRouteStops
    \/ SyncSelectedPlacesStops

AppSpec == AppInit /\ [][AppNext]_vars

----------------------------------------------------------------------------
\* App: the stop list and the routing (App.tsx).  The day handlers setStopDay
\* and autoAssignDays write stopDays alone, which no routing code reads, and
\* are left out of RouteSpec.

\* the catalogue of the routing scenarios: places 1 and 2
RoutePlaces == {p \in PlacePool : p.id <= 2}

RouteInit ==
    /\ places = RoutePlaces
    /\ selectedPlaces = <<>>
    /\ prevPlacesLengthRef = 0
    /\ syncPending = FALSE
    /\ setDayArgs = <<>>
    /\ apc = "mounted"
    /\ RouteIdle
    /\ SegIdle
    /\ OrderIdle
    /\ ClosestIdle
    /\ DistIdle

\* what the routing handlers and responses leave alone
routeFrame ==
    <<stopDays, places, selectedPlaces, prevPlacesLengthRef, syncPending, setDayArgs, appFrame>>

\* line 938: onClick={() => setProfile(p)}
SetProfile ==
    /\ HandlerReady
    /\ RoomForRequest
    /\ \E p \in Profiles :
           /\ profile' = p
           /\ routePending' = (p # profile)
    /\ UNCHANGED <<routeCoords, markers, apc, routeMode, loading, error, stats, inFlight,
                   lastResponse, routeFrame>>

\* lines 181-210: the effect on [markers, profile, routeMode]: the cleanup of
\* its previous run, then its body up to the request
RoadRouteEffect ==
    /\ apc = "mounted"
    /\ routePending
    /\ routePending' = FALSE
    /\ IF Len(markers) < 2
       THEN /\ routeCoords' = <<>>
            /\ stats' = NoStats
            /\ inFlight' = CancelEffectRequests(inFlight)
            /\ UNCHANGED <<loading, error>>
       ELSE IF routeMode # "road"
       THEN /\ inFlight' = CancelEffectRequests(inFlight)
            /\ UNCHANGED <<routeCoords, stats, loading, error>>
       ELSE /\ loading' = TRUE
            /\ error' = NoError
            /\ inFlight' = Append(CancelEffectRequests(inFlight),
                                  Request("effect", MarkerCoords(markers), profile))
            /\ UNCHANGED <<routeCoords, stats>>
    /\ UNCHANGED <<markers, apc, routeMode, profile, lastResponse, routeFrame>>

\* lines 196-206: the response to the effect's request
RoadRouteEffectResponse ==
    /\ EffectsDone
    /\ \E i \in DOMAIN inFlight, ok \in BOOLEAN :
           /\ inFlight[i].src = "effect"
           /\ inFlight' = RemoveAt(inFlight, i - 1)
           /\ IF inFlight[i].cancelled \/ apc # "mounted"
              THEN /\ lastResponse' = [src |-> "effect", outcome |-> "discarded"]
                   /\ UNCHANGED <<routeCoords, loading, error, stats>>
              ELSE /\ loading' = FALSE
                   /\ IF ok
                      THEN /\ routeCoords' = RoadRoute(inFlight[i].coords)
                           /\ stats' = StatsOf(RoadRoute(inFlight[i].coords))
                           /\ lastResponse' = [src |-> "effect", outcome |-> "ok"]
                           /\ UNCHANGED error
                      ELSE /\ error' = ServiceError
                           /\ lastResponse' = [src |-> "effect", outcome |-> "error"]
                           /\ UNCHANGED <<routeCoords, stats>>
    /\ UNCHANGED <<markers, apc, routeMode, profile, routePending, routeFrame>>

\* lines 125-128: applyRoadRoute up to its await; its buttons are disabled
\* while loading and with fewer than 2 markers (lines 557-563, 898)
ApplyRoadRoute ==
    /\ HandlerReady
    /\ RoomForRequest
    /\ ~loading
    /\ Len(markers) >= 2
    /\ loading' = TRUE
    /\ error' = NoError
    /\ inFlight' = Append(inFlight, Request("applyRoadRoute", MarkerCoords(markers), profile))
    /\ UNCHANGED <<routeCoords, markers, apc, routeMode, profile, stats, routePending,
                   lastResponse, routeFrame>>

\* applyRoadRoute without the `return` of line 133: the result of a failed
\* request, which carries the stops themselves as routeCoords, is applied
ApplyRoadRouteResponseNoReturn ==
    /\ EffectsDone
    /\ \E i \in DOMAIN inFlight, ok \in BOOLEAN :
           /\ inFlight[i].src = "applyRoadRoute"
           /\ inFlight' = RemoveAt(inFlight, i - 1)
           /\ IF apc # "mounted"
              THEN /\ lastResponse' = [src |-> "applyRoadRoute", outcome |-> "discarded"]
                   /\ UNCHANGED <<routeCoords, routeMode, loading, error, stats, routePending>>
              ELSE /\ loading' = FALSE
                   /\ routeCoords' = inFlight[i].coords
                   /\ routeMode' = "road"
                   /\ stats' = IF ok THEN StatsOf(RoadRoute(inFlight[i].coords)) ELSE NoStats
                   /\ routePending' = (routeMode # "road")
                   /\ error' = IF ok THEN error ELSE ServiceError
                   /\ lastResponse' = [src |-> "applyRoadRoute",
                                        outcome |-> IF ok THEN "ok" ELSE "error"]
    /\ UNCHANGED <<markers, apc, profile, routeFrame>>

\* lines 129-140: applyRoadRoute from its await on
ApplyRoadRouteResponse ==
    /\ EffectsDone
    /\ \E i \in DOMAIN inFlight, ok \in BOOLEAN :
           /\ inFlight[i].src = "applyRoadRoute"
           /\ inFlight' = RemoveAt(inFlight, i - 1)
           /\ IF apc # "mounted"
              THEN /\ lastResponse' = [src |-> "applyRoadRoute", outcome |-> "discarded"]
                   /\ UNCHANGED <<routeCoords, routeMode, loading, error, stats, routePending>>
              ELSE /\ loading' = FALSE
                   /\ IF ok
                      THEN /\ routeCoords' = RoadRoute(inFlight[i].coords)
                           /\ routeMode' = "road"
                           /\ stats' = StatsOf(RoadRoute(inFlight[i].coords))
                           /\ routePending' = (routeMode # "road")
                           /\ lastResponse' = [src |-> "applyRoadRoute", outcome |-> "ok"]
                           /\ UNCHANGED error
                      ELSE /\ error' = ServiceError
                           /\ lastResponse' = [src |-> "applyRoadRoute", outcome |-> "error"]
                           /\ UNCHANGED <<routeCoords, routeMode, stats, routePending>>
    /\ UNCHANGED <<markers, apc, profile, routeFrame>>

\* lines 143-146: applyOptimizedRoute up to its await
ApplyOptimizedRoute ==
    /\ HandlerReady
    /\ RoomForRequest
    /\ ~loading
    /\ Len(markers) >= 2
    /\ loading' = TRUE
    /\ error' = NoError
    /\ inFlight' = Append(inFlight, Request("applyOptimizedRoute", MarkerCoords(markers), profile))
    /\ UNCHANGED <<routeCoords, markers, apc, routeMode, profile, stats, routePending,
                   lastResponse, routeFrame>>

\* lines 147-169: applyOptimizedRoute from its await on; `markers` of line 159
\* is the list the handler was called with, as long as the waypoints
\* returned, so the markers are replaced
ApplyOptimizedRouteResponse ==
    /\ EffectsDone
    /\ \E i \in DOMAIN inFlight, ok \in BOOLEAN :
           /\ inFlight[i].src = "applyOptimizedRoute"
           /\ inFlight' = RemoveAt(inFlight, i - 1)
           /\ IF apc # "mounted"
              THEN /\ lastResponse' = [src |-> "applyOptimizedRoute", outcome |-> "discarded"]
                   /\ UNCHANGED <<routeCoords, markers, routeMode, loading, error, stats,
                                  routePending>>
              ELSE /\ loading' = FALSE
                   /\ IF ok
                      THEN \E trip \in Trips(inFlight[i].coords) :
                               /\ routeCoords' = TripRoute(trip)
                               /\ routeMode' = "optimized"
                               /\ stats' = StatsOf(TripRoute(trip))
                               /\ markers' = NewMarkers(trip)
                               /\ routePending' = TRUE
                               /\ lastResponse' = [src |-> "applyOptimizedRoute", outcome |-> "ok"]
                               /\ UNCHANGED error
                      ELSE /\ error' = ServiceError
                           /\ lastResponse' = [src |-> "applyOptimizedRoute", outcome |-> "error"]
                           /\ UNCHANGED <<routeCoords, markers, routeMode, stats, routePending>>
    /\ UNCHANGED <<apc, profile, routeFrame>>

\* the component is unmounted: the cleanup of the road-route effect runs
Unmount ==
    /\ HandlerReady
    /\ apc' = "unmounted"
    /\ inFlight' = CancelEffectRequests(inFlight)
    /\ UNCHANGED <<routeCoords, markers, routeMode, profile, loading, error, stats, routePending,
                   lastResponse, routeFrame>>

RouteNext ==
    \/ AddPlaceToRoute
    \/ RemovePlaceFromRoute
    \/ SuggestRouteByDistance
    \/ ClearRoute
    \/ SyncSelectedPlaces
    \/ SetProfile
    \/ RoadRouteEffect
    \/ RoadRouteEffectResponse
    \/ ApplyRoadRoute
    \/ ApplyRoadRouteResponse
    \/ ApplyOptimizedRoute
    \/ ApplyOptimizedRouteResponse
    \/ Unmount

RouteSpec == RouteInit /\ [][RouteNext]_vars

\* effects run after the render that scheduled them, and the routing service
\* answers every request; the user's clicks are not forced
RouteFairSpec ==
    /\ RouteInit
    /\ [][RouteNext]_vars
    /\ WF_vars(SyncSelectedPlaces)
    /\ WF_vars(RoadRouteEffect)
    /\ WF_vars(RoadRouteEffectResponse)
    /\ WF_vars(ApplyRoadRouteResponse)
    /\ WF_vars(ApplyOptimizedRouteResponse)

----------------------------------------------------------------------------
\* Properties of getRouteSegmentsByDay (under Spec)

Returned == pc = "returned"

\* the call went past the precondition check
Partitioned == Returned /\ Len(routeCoords) >= 2 /\ Len(markers) >= 2

LastIndex == Len(routeCoords) - 1

\* polyline index at which segments[k] starts: the index of the stop whose loop
\* iteration pushed it
SegStart(k) == indices[segPair[k] + 1]

\* polyline index of the last point of segments[k]
SegEnd(k) == SegStart(k) + Len(segments[k].coords) - 1

\* C1: no returned segment has fewer than 2 points.
C1_SegmentsHaveTwoPoints ==
    Returned => \A k \in DOMAIN segments : Len(segments[k].coords) >= 2

\* a call that pushed a segment and dropped a pair
C1_Witness ==
    /\ Partitioned
    /\ Len(segments) >= 1
    /\ Len(segments) < Len(markers) - 1

\* C2: after the enforcement pass there is one index per stop and the indices
\* are non-decreasing in stop order.
C2_IndicesNonDecreasing ==
    Partitioned =>
        /\ Len(enforced) = Len(markers)
        /\ \A i \in 2..Len(enforced) : enforced[i] >= enforced[i - 1]

\* a call whose stops projected to the same vertex and to an earlier vertex
C2_Witness ==
    /\ Partitioned
    /\ \E i \in 2..Len(projected) : projected[i] = projected[i - 1]
    /\ \E i \in 2..Len(projected) : projected[i] < projected[i - 1]

ScenarioCall ==
    /\ Returned
    /\ Len(routeCoords) >= 10
    /\ \A j \in 2..Len(routeCoords) : routeCoords[j][1] > routeCoords[j - 1][1]
    /\ markers = <<[coords |-> routeCoords[1]], [coords |-> routeCoords[5]],
                   [coords |-> routeCoords[10]]>>
    /\ stopDays = <<1, 1, 2>>

\* C4 as stated: the scenario returns vertices 0..4 tagged day 1, then vertices
\* 4..9 tagged day 2.
C4_ScenarioSecondDay2 ==
    ScenarioCall =>
        segments = <<[coords |-> SubSeq(routeCoords, 1, 5), day |-> 1],
                     [coords |-> SubSeq(routeCoords, 5, 10), day |-> 2]>>

\* C4 amended: the scenario returns vertices 0..4 tagged day 1, then vertices
\* 4..9 tagged day 1, the day of stop 1.
C4_ScenarioSecondDay1 ==
    ScenarioCall =>
        segments = <<[coords |-> SubSeq(routeCoords, 1, 5), day |-> 1],
                     [coords |-> SubSeq(routeCoords, 5, 10), day |-> 1]>>

C4_Witness == ScenarioCall /\ Len(segments) = 2

\* C5: the segment pushed for the pair (i, i+1) carries stopDays[i] when that
\* entry exists and floor(i / STOPS_PER_DAY) + 1 otherwise.
C5_DayOfFirstStop ==
    Returned =>
        /\ Len(segPair) = Len(segments)
        /\ \A k \in DOMAIN segments :
               LET i == segPair[k]
               IN  segments[k].day =
                       IF i < Len(stopDays) THEN stopDays[i + 1]
                       ELSE (i \div STOPS_PER_DAY) + 1

\* a call with a segment tagged from an entry that differs from the default,
\* and a segment tagged by default
C5_Witness ==
    /\ Returned
    /\ \E k \in DOMAIN segments :
           /\ segPair[k] < Len(stopDays)
           /\ stopDays[segPair[k] + 1] # (segPair[k] \div STOPS_PER_DAY) + 1
    /\ \E k \in DOMAIN segments : segPair[k] >= Len(stopDays)

\* stopDays is the assignment floor(i / STOPS_PER_DAY) + 1, or a prefix of it
IsDefaultPrefix(sd) == \A j \in DOMAIN sd : sd[j] = ((j - 1) \div STOPS_PER_DAY) + 1

\* C6: a call with the default assignment, or a prefix of it, returns the
\* segments the call with an empty assignment returns.
C6_DefaultAssignmentSameAsNone ==
    Returned /\ IsDefaultPrefix(stopDays) =>
        segments = getRouteSegmentsByDay(routeCoords, markers, <<>>)

\* a call with the whole default assignment that returned two segments
C6_Witness ==
    /\ Returned
    /\ IsDefaultPrefix(stopDays)
    /\ Len(stopDays) = Len(markers)
    /\ Len(segments) = 2

\* C7: with fewer than 2 polyline points or fewer than 2 stops the call
\* returns no segment.
C7_DegenerateReturnsEmpty ==
    Returned /\ (Len(routeCoords) < 2 \/ Len(markers) < 2) => segments = <<>>

\* a call with a one-point polyline, stops and a day assignment
C7_Witness ==
    /\ Returned
    /\ Len(routeCoords) = 1
    /\ Len(markers) = MaxStops
    /\ stopDays # <<>>
    /\ segments = <<>>

\* C8: consecutive returned segments meet at one polyline index, and no two
\* returned segments share a polyline edge.
C8_ContiguousNonOverlapping ==
    Returned =>
        /\ \A k \in 1..(Len(segments) - 1) : SegStart(k + 1) = SegEnd(k)
        /\ \A k1, k2 \in DOMAIN segments :
               k1 < k2 =>
                   ~ \E j \in 0..LastIndex :
                         /\ SegStart(k1) <= j /\ j + 1 <= SegEnd(k1)
                         /\ SegStart(k2) <= j /\ j + 1 <= SegEnd(k2)

\* two segments returned after the pass moved a stop forward
C8_Witness ==
    /\ Partitioned
    /\ Len(segments) >= 2
    /\ projected # indices

\* C9: the segment pushed for the pair (i, i+1) is polyline[start..end] with
\* start and end the enforced indices of stops i and i+1.
C9_SegmentIsInclusiveSlice ==
    Returned =>
        \A k \in DOMAIN segments :
            LET start == indices[segPair[k] + 1]
                end == indices[segPair[k] + 2]
                coords == segments[k].coords
            IN  /\ 0 <= start /\ end <= LastIndex
                /\ Len(coords) = end - start + 1
                /\ \A j \in 0..(end - start) : coords[j + 1] = routeCoords[start + j + 1]

\* a returned segment of three or more points
C9_Witness ==
    /\ Returned
    /\ \E k \in DOMAIN segments : Len(segments[k].coords) >= 3

\* C17: the tag of every returned segment is the day shown on the marker of
\* the stop the segment starts from.
C17_SegmentDayIsMarkerDay ==
    Returned =>
        \A k \in DOMAIN segments : segments[k].day = MarkerDay(stopDays, segPair[k])

\* a call with a segment starting from a stop with an entry and a segment
\* starting from a later stop without one
C17_Witness ==
    /\ Returned
    /\ \E k \in DOMAIN segments : segPair[k] < Len(stopDays)
    /\ \E k \in DOMAIN segments : segPair[k] >= Len(stopDays) /\ segPair[k] >= 1

\* the loop indices i, in order, whose pair has end > start
PairsWithEndAfterStart ==
    SelectSeq([j \in 1..(Len(markers) - 1) |-> j - 1],
              LAMBDA i : indices[i + 2] > indices[i + 1])

\* C19: the call returns, in stop order, one segment for each consecutive pair
\* of stops with end > start and none for any other pair; so at most one per
\* consecutive pair, and one per consecutive pair when the projected indices
\* are strictly increasing.
C19_OneSegmentPerAdvancingPair ==
    /\ Partitioned =>
           /\ segPair = PairsWithEndAfterStart
           /\ Len(segments) = Len(segPair)
           /\ ((\A i \in 2..Len(projected) : projected[i] > projected[i - 1])
                   => Len(segments) = Len(markers) - 1)
    /\ Returned /\ Len(markers) >= 1 => Len(segments) <= Len(markers) - 1

\* a call with three stops or more whose projected indices are strictly
\* increasing, returning one segment per consecutive pair
C19_Witness ==
    /\ Partitioned
    /\ Len(markers) >= 3
    /\ \A i \in 2..Len(projected) : projected[i] > projected[i - 1]
    /\ Len(segments) = Len(markers) - 1
    /\ segPair = [k \in 1..(Len(markers) - 1) |-> k - 1]

----------------------------------------------------------------------------
\* Properties of orderByNearestFromStart (under OrderSpec)

\* C10: the returned list has the length of the input and holds every input
\* item exactly once.
C10_OutputIsPermutation ==
    opc = "returned" =>
        /\ Len(ordered) = Len(items)
        /\ \A k \in DOMAIN items :
               Cardinality({j \in DOMAIN ordered : ordered[j] = items[k]}) = 1

\* a reordering call on items of which two share their coordinates
C10_Witness ==
    /\ opc = "returned"
    /\ Len(items) > 2
    /\ ordered # items
    /\ \E a, b \in DOMAIN items : a # b /\ items[a].coords = items[b].coords

\* C11: for an input of more than 2 items the first returned item is the
\* first input item.
C11_FirstItemFixed ==
    opc = "returned" /\ Len(items) > 2 => ordered[1] = items[1]

\* a reordering call in which another item lies at the start's coordinates
C11_Witness ==
    /\ opc = "returned"
    /\ Len(items) > 2
    /\ ordered # items
    /\ \E k \in 2..Len(items) : items[k].coords = items[1].coords

\* C12: an input of 0, 1 or 2 items is returned item for item in its order.
C12_ShortInputUnchanged ==
    opc = "returned" /\ Len(items) <= 2 => ordered = items

\* a call on two items of which the second is nearer to [0, 0] than the first
C12_Witness ==
    /\ opc = "returned"
    /\ Len(items) = 2
    /\ items[1].coords[1] - items[2].coords[1] >= 2
    /\ ordered = items

\* the items of the input not placed before position k of the output
NotPlacedBefore(k) ==
    {it \in {items[j] : j \in DOMAIN items} : \A j \in 1..(k - 1) : ordered[j] # it}

C13_ScenarioReturned == opc = "returned" /\ items = ScenarioItems

----------------------------------------------------------------------------
\* Properties of findClosestRouteIndex (under ClosestSpec)

\* distance from vertex j (0-based) of the call's polyline to its query point
VertexDist(j) == distanceMeters(closestRoute[j + 1], closestPoint)

C14_ScenarioReturned ==
    cpc = "returned" /\ closestRoute = ScenarioClosestRoute /\ closestPoint = ScenarioClosestPoint

\* C15: on an empty polyline the call returns index 0.
C15_EmptyPolylineReturnsZero ==
    cpc = "returned" /\ Len(closestRoute) = 0 => closestIndex = 0

\* a call on the empty polyline with a query away from [0, 0]
C15_Witness ==
    /\ cpc = "returned"
    /\ Len(closestRoute) = 0
    /\ closestPoint # Point(0)
    /\ closestIndex = 0

----------------------------------------------------------------------------
\* Properties of orderByNearestFromStart's loop (under OrderFairSpec)

\* C20: in the loop every item is either placed or in the pool; an iteration
\* takes one item from the pool and places one; the loop is left with the pool
\* empty and every item placed, n - 1 of them by the loop; and the call returns.
C20_LoopTerminates ==
    /\ [](opc = "loop" => Len(ordered) >= 1 /\ Len(ordered) + Len(remaining) = Len(items))
    /\ [][opc = "loop" /\ opc' = "loop" =>
              /\ Len(remaining') = Len(remaining) - 1
              /\ Len(ordered') = Len(ordered) + 1]_vars
    /\ [][opc = "loop" /\ opc' = "returned" =>
              /\ remaining = <<>>
              /\ Len(ordered) - 1 = Len(items) - 1]_vars
    /\ <>(opc = "returned")

\* a call on the most items drawn has left the loop
C20_Witness ==
    /\ opc = "returned"
    /\ Len(items) = MaxItems
    /\ remaining = <<>>
    /\ Len(ordered) = MaxItems

----------------------------------------------------------------------------
\* Properties of distanceMeters on numbers of limited precision (under
\* DistanceSpec)

\* C18: distanceMeters never returns NaN: x lies within [0, 1] when the square
\* roots are taken, for coincident points and for antipodal points too.
C18_NeverNaN ==
    dpc = "returned" => distX \in 0..FixedOne /\ ~distNaN

\* a call on two antipodal points off the equator that returned NaN
C18_AntipodalNaN ==
    /\ dpc = "returned"
    /\ distB[2] = -distA[2]
    /\ distA[2] # 0
    /\ Abs(distB[1] - distA[1]) = 180
    /\ distX > FixedOne
    /\ distNaN

----------------------------------------------------------------------------
\* Properties of the App's day assignment (under AppSpec)

\* C16: after any sequence of add place, remove place, suggest route, set stop
\* day (with any integer), auto-assign and clear route, every entry of
\* stopDays is an integer >= 1, and the default day of every stop index is
\* >= 1 too.
C16_DaysAtLeastOne ==
    /\ \A j \in DOMAIN stopDays : stopDays[j] \in Int /\ stopDays[j] >= 1
    /\ \A i \in 0..MaxPlaces : DefaultDay(i) >= 1 /\ MarkerDay(stopDays, i) >= 1

\* setStopDay was called last with a day below 1 for a stop of a full list, a
\* later stop holds a day chosen by hand, and the entry set holds day 1
C16_Witness ==
    /\ apc = "mounted"
    /\ Len(stopDays) = MaxPlaces
    /\ Len(selectedPlaces) = MaxPlaces
    /\ setDayArgs # <<>>
    /\ setDayArgs[1] \in 1..(MaxPlaces - 1)
    /\ setDayArgs[2] < 1
    /\ stopDays[setDayArgs[1] + 1] = 1
    /\ \E j \in DOMAIN stopDays : stopDays[j] # DefaultDay(j - 1) /\ j # setDayArgs[1] + 1

----------------------------------------------------------------------------
\* orderByNearestFromStart is a heuristic (under OrderSpec)

Lngs(its) == [k \in 1..Len(its) |-> its[k].coords[1]]

\* some order keeping the first item is strictly shorter than the returned one
ShorterTourExists ==
    \E t \in ToursFrom(items) : TourLength(t) < TourLength(ordered)

\* C21: the loop never takes back an item it has placed, and where another
\* order keeping the first item is strictly shorter the call still returns
\* the nearest-neighbour order: the stops at longitudes 2, 1, 3, 0 come back
\* as 2, 1, 0, 3 (5 degrees of travel) although 2, 3, 1, 0 takes 4.
C21_GreedyKeptWhenLonger ==
    /\ [](opc = "returned" /\ Len(items) > 2 /\ ShorterTourExists =>
              \A k \in 2..Len(ordered) : \A j \in (k + 1)..Len(ordered) :
                  Abs(ordered[k].coords[1] - ordered[k - 1].coords[1])
                      <= Abs(ordered[j].coords[1] - ordered[k - 1].coords[1]))
    /\ [](opc = "returned" /\ Lngs(items) = <<2, 1, 3, 0>> =>
              /\ Lngs(ordered) = <<2, 1, 0, 3>>
              /\ TourLength(ordered) = 5 * MetersPerDegree
              /\ \E t \in ToursFrom(items) :
                     Lngs(t) = <<2, 3, 1, 0>> /\ TourLength(t) = 4 * MetersPerDegree)
    /\ [][opc = "loop" /\ opc' = "loop" =>
              SubSeq(ordered', 1, Len(ordered)) = ordered]_vars

\* a call that returned a tour strictly longer than another order of its items
C21_Witness ==
    /\ opc = "returned"
    /\ Len(items) = MaxItems
    /\ ShorterTourExists
    /\ ordered = orderByNearestFromStart(items)

----------------------------------------------------------------------------
\* More properties of getRouteSegmentsByDay (under Spec)

\* C25: the pair (i, i + 1) yields no segment exactly when the index of stop
\* i is the last polyline index; so the pairs that yield a segment are the
\* first ones, every pair after a dropped pair is dropped, and with more
\* stops than polyline vertices some pair is dropped.
C25_DroppedPairsFormSuffix ==
    Partitioned =>
        /\ \A i \in 0..(Len(markers) - 2) :
               (\A k \in DOMAIN segPair : segPair[k] # i) <=> indices[i + 1] = LastIndex
        /\ segPair = [k \in 1..Len(segments) |-> k - 1]
        /\ (Len(markers) > Len(routeCoords) => Len(segments) < Len(markers) - 1)

\* a call with more stops than polyline vertices and stops projected out of
\* order that returned a segment and dropped a pair
C25_Witness ==
    /\ Partitioned
    /\ Len(markers) > Len(routeCoords)
    /\ Len(segments) >= 1
    /\ Len(segments) < Len(markers) - 1
    /\ indices[Len(segments) + 1] = LastIndex
    /\ \E k \in 2..Len(projected) : projected[k] < projected[k - 1]

\* C26: every enforced index lies between the stop's projected index and the
\* last polyline index, the first stop's index is the projected one, the
\* final clamp changes nothing, and every slice taken lies within the
\* polyline.
C26_EnforcedWithinBounds ==
    Partitioned =>
        /\ \A k \in DOMAIN enforced :
               projected[k] <= enforced[k] /\ enforced[k] <= LastIndex
        /\ enforced[1] = projected[1]
        /\ indices = enforced
        /\ \A i \in 0..(Len(markers) - 2) :
               indices[i + 1] >= 0 /\ indices[i + 2] + 1 <= Len(routeCoords)
        /\ \A k \in DOMAIN segments :
               /\ Len(segments[k].coords) = indices[segPair[k] + 2] - indices[segPair[k] + 1] + 1
               /\ \A j \in DOMAIN segments[k].coords :
                      segments[k].coords[j] = routeCoords[indices[segPair[k] + 1] + j]

\* a call in which one stop was moved forward by one vertex and another was
\* held at the last vertex by Math.min
C26_Witness ==
    /\ Partitioned
    /\ Len(segments) >= 1
    /\ \E k \in 2..Len(enforced) :
           enforced[k] = enforced[k - 1] + 1 /\ projected[k] < enforced[k]
    /\ \E k \in 2..Len(enforced) :
           /\ enforced[k - 1] = LastIndex
           /\ projected[k] < LastIndex
           /\ enforced[k] = LastIndex

----------------------------------------------------------------------------
\* Properties of the App's stop list (under AppSpec)

\* no selectedPlaces effect is waiting to run
Settled == apc = "mounted" /\ ~syncPending

\* a step of the selectedPlaces effect
SyncStep == syncPending /\ ~syncPending'

\* C22: once the selectedPlaces effect has run, stopDays, selectedPlaces and
\* markers have the same length; when the effect finds more places than days
\* it keeps the days there are and appends the default day of each new index.
C22_OneDayPerPlace ==
    /\ [](Settled => /\ Len(stopDays) = Len(selectedPlaces)
                     /\ Len(markers) = Len(selectedPlaces)
                     /\ prevPlacesLengthRef = Len(selectedPlaces))
    /\ [][SyncStep /\ Len(selectedPlaces) > Len(stopDays) =>
              stopDays' = [j \in 1..Len(selectedPlaces) |->
                              IF j <= Len(stopDays) THEN stopDays[j]
                              ELSE ((j - 1) \div STOPS_PER_DAY) + 1]]_vars

\* the effect has run on a full stop list whose first stop holds a day set by
\* hand and whose last stop holds the default day
C22_Witness ==
    /\ Settled
    /\ Len(selectedPlaces) = MaxPlaces
    /\ Len(stopDays) = MaxPlaces
    /\ stopDays[1] # 1
    /\ stopDays[MaxPlaces] = ((MaxPlaces - 1) \div STOPS_PER_DAY) + 1
    /\ setDayArgs # <<>>
    /\ setDayArgs[1] = 0

\* C29: removing a stop leaves stopDays alone until the selectedPlaces effect
\* runs, and the effect then keeps the first entries of stopDays, one per
\* remaining stop: the stop now at a position holds the day that position had.
C29_RemoveKeepsDaysByPosition ==
    /\ [][RemovePlaceFromRoute /\ Len(selectedPlaces') = Len(selectedPlaces) - 1 =>
              /\ stopDays' = stopDays
              /\ \E k \in 1..Len(selectedPlaces) :
                     selectedPlaces' = [j \in 1..(Len(selectedPlaces) - 1) |->
                                           IF j < k THEN selectedPlaces[j]
                                           ELSE selectedPlaces[j + 1]]]_vars
    /\ [][SyncStep /\ Len(selectedPlaces) < Len(stopDays) =>
              stopDays' = SubSeq(stopDays, 1, Len(selectedPlaces))]_vars
    /\ [](syncPending /\ Len(selectedPlaces) = Len(markers) - 1 =>
              Len(stopDays) = Len(markers))

\* the first of a full list of stops has been removed, the days 1, 2, ...
\* had been changed by hand, and the selectedPlaces effect has yet to run
C29_Witness ==
    /\ syncPending
    /\ Len(markers) = MaxPlaces
    /\ Len(selectedPlaces) = MaxPlaces - 1
    /\ Len(stopDays) = MaxPlaces
    /\ selectedPlaces[1].id = markers[2].id
    /\ stopDays[1] # stopDays[2]
    /\ stopDays[MaxPlaces] # ((MaxPlaces - 1) \div STOPS_PER_DAY) + 1

\* ---------------------------------------------------------------------------
\* Route requests and their responses (RouteSpec)
\* ---------------------------------------------------------------------------

\* a step in which a request is sent to the routing service
RequestStep == Len(inFlight') = Len(inFlight) + 1

\* a step in which the caller handles an error reported by the service
ErrorResponseStep ==
    /\ Len(inFlight') = Len(inFlight) - 1
    /\ lastResponse'.outcome = "error"

\* C23: when the routing service reports an error to applyRoadRoute,
\* applyOptimizedRoute or the road-route effect, the caller records the error
\* string and leaves routeCoords, stats, routeMode and markers (and the stop
\* list and days behind the segments) as they were; sending the request
\* changed none of them either.
C23_ErrorKeepsRoute ==
    /\ [][ErrorResponseStep =>
              /\ error' = ServiceError
              /\ loading' = FALSE
              /\ UNCHANGED <<routeCoords, stats, routeMode, markers,
                             selectedPlaces, stopDays>>]_vars
    /\ [][RequestStep =>
              UNCHANGED <<routeCoords, stats, routeMode, markers>>]_vars

\* applyRoadRoute has failed while an optimized trip is on display: the trip,
\* its stats and the mode are still there, next to the error
C23_Witness ==
    /\ lastResponse = [src |-> "applyRoadRoute", outcome |-> "error"]
    /\ error = ServiceError
    /\ routeMode = "optimized"
    /\ Len(markers) >= 2
    /\ routeCoords = TripRoute(MarkerCoords(markers))
    /\ stats = StatsOf(routeCoords)

\* the requests of the road-route effect whose run has not been cleaned up
LiveEffectRequests ==
    {i \in DOMAIN inFlight : inFlight[i].src = "effect" /\ ~inFlight[i].cancelled}

\* C27: a request of the road-route effect that is still in flight when
\* markers, profile or routeMode change, or when the component unmounts, is
\* superseded: once the effects have run, the only effect request not
\* cancelled is the one for the current markers, profile and road mode, and
\* the response to a cancelled one changes none of routeCoords, stats, error
\* and loading, in whatever order the responses arrive.
C27_SupersededResponseDiscarded ==
    /\ [](EffectsDone =>
              \A i \in LiveEffectRequests :
                  /\ apc = "mounted"
                  /\ routeMode = "road"
                  /\ inFlight[i].coords = MarkerCoords(markers)
                  /\ inFlight[i].profile = profile
                  /\ LiveEffectRequests = {i})
    /\ [][\A i \in DOMAIN inFlight :
              ( /\ inFlight[i].src = "effect"
                /\ inFlight[i].cancelled \/ apc # "mounted"
                /\ lastResponse'.src = "effect"
                /\ inFlight' = RemoveAt(inFlight, i - 1) ) =>
              UNCHANGED <<routeCoords, stats, error, loading>>]_vars

\* the response to a superseded request arrived after the response to the
\* request that superseded it, and the route on display is the newer one
C27_Witness ==
    /\ apc = "mounted"
    /\ lastResponse = [src |-> "effect", outcome |-> "discarded"]
    /\ inFlight = <<>>
    /\ EffectsDone
    /\ ~loading
    /\ error = NoError
    /\ routeMode = "road"
    /\ Len(markers) >= 2
    /\ routeCoords = RoadRoute(MarkerCoords(markers))

\* C24: in every settled state markers mirrors selectedPlaces: the same
\* length, and markers[i] at the coordinates of selectedPlaces[i] for every
\* i, also after an optimized trip has been applied.
C24_MarkersMirrorSelectedPlaces ==
    apc = "mounted" /\ EffectsDone =>
        /\ Len(markers) = Len(selectedPlaces)
        /\ \A i \in 1..Len(markers) : markers[i].coords = selectedPlaces[i].coords

\* an optimized trip has been applied and no request is left: the markers
\* are in the order of the trip, the selected places in the order they had
C24_MarkersReordered ==
    /\ apc = "mounted"
    /\ EffectsDone
    /\ inFlight = <<>>
    /\ lastResponse = [src |-> "applyOptimizedRoute", outcome |-> "ok"]
    /\ Len(markers) = Len(selectedPlaces)
    /\ \E i \in 1..Len(markers) : markers[i].coords # selectedPlaces[i].coords

\* routeCoords is an answer to a request for the current marker list in the
\* current mode: the road route through the markers in their order, or a
\* round trip over them
RouteIsForMarkers ==
    IF routeMode = "road" THEN routeCoords = RoadRoute(MarkerCoords(markers))
    ELSE \E trip \in Trips(MarkerCoords(markers)) : routeCoords = TripRoute(trip)

\* C28: whenever no request is in flight, the last request succeeded and
\* there are at least 2 markers, routeCoords is the route for the current
\* marker list, in road mode and in optimized mode.
C28_RouteIsForCurrentMarkers ==
    ( /\ apc = "mounted"
      /\ EffectsDone
      /\ inFlight = <<>>
      /\ lastResponse.outcome = "ok"
      /\ error = NoError
      /\ Len(markers) >= 2 ) =>
        RouteIsForMarkers

\* road mode, nothing in flight, no error: the route on display is the answer
\* to applyRoadRoute for the marker list of the time of the click
C28_StaleRoadRoute ==
    /\ apc = "mounted"
    /\ EffectsDone
    /\ inFlight = <<>>
    /\ lastResponse = [src |-> "applyRoadRoute", outcome |-> "ok"]
    /\ error = NoError
    /\ routeMode = "road"
    /\ Len(markers) >= 2
    /\ Len(routeCoords) = Len(markers)
    /\ routeCoords # RoadRoute(MarkerCoords(markers))

\* C30: loading is true only while a request that has not been cancelled is
\* in flight, and once the pending responses have arrived it becomes false
\* again, also when the marker list drops below 2 stops or the effect is
\* superseded while its request is pending.
C30_LoadingOnlyWhileInFlight ==
    /\ [](apc = "mounted" /\ EffectsDone /\ loading =>
              \E i \in DOMAIN inFlight : ~inFlight[i].cancelled)
    /\ (apc = "mounted" /\ loading /\ EffectsDone /\ inFlight = <<>>)
           ~> (~loading \/ apc # "mounted")

\* every response has arrived, no effect is left to run, and loading is true
C30_LoadingStuck ==
    /\ apc = "mounted"
    /\ EffectsDone
    /\ inFlight = <<>>
    /\ loading

====
